---- MODULE Spec2Model ----
(***************************************************************************)
(* Model of the xk6-weaviate extension (src/weaviate.go): the translation  *)
(* of loosely typed call arguments into requests for the Weaviate client   *)
(* library and of the library's answers back into plain mappings.          *)
(*                                                                         *)
(* Go strings that the code inspects (prefixes, substrings, case) are      *)
(* sequences of one-character strings; opaque strings (ids, tenant names)  *)
(* are TLA+ strings.  A Go interface{} value is a record with a type tag   *)
(* t and, when it has one, a payload v.                                    *)
(***************************************************************************)
EXTENDS Integers, Sequences, FiniteSets, TLC

VARIABLES
    op,     \* the operation that ran last, "idle" between calls
    args,   \* the arguments the caller gave it
    sent,   \* the calls of the client library it made, in order
    reply,  \* the library's answer to the last of them
    ret,    \* how the operation ended: a return (value, error) or a panic
    db,     \* the objects the server stores, by id
    callers,\* concurrent callers of one client: each one's call in progress
    heap,   \* the request builders the library handed out, by address
    client  \* the identity held by the Client the callers share

callVars == <<op, args, sent, reply, ret>>
concVars == <<callers, heap, client>>
vars == <<op, args, sent, reply, ret, db, callers, heap, client>>

(***************************************************************************)
(* Bounds of the model.                                                    *)
(***************************************************************************)
MaxBatch == 2
MaxAdditional == 2

(***************************************************************************)
(* Go strings: package strings.                                            *)
(***************************************************************************)
UpperAlpha == <<"A","B","C","D","E","F","G","H","I","J","K","L","M",
                "N","O","P","Q","R","S","T","U","V","W","X","Y","Z">>
LowerAlpha == <<"a","b","c","d","e","f","g","h","i","j","k","l","m",
                "n","o","p","q","r","s","t","u","v","w","x","y","z">>

ToLowerChar(c) ==
    IF \E i \in DOMAIN UpperAlpha : UpperAlpha[i] = c
    THEN LowerAlpha[CHOOSE i \in DOMAIN UpperAlpha : UpperAlpha[i] = c]
    ELSE c

ToLower(s) == [i \in 1..Len(s) |-> ToLowerChar(s[i])]

HasPrefix(s, p) == Len(s) >= Len(p) /\ SubSeq(s, 1, Len(p)) = p

HasSuffix(s, p) == Len(s) >= Len(p) /\ SubSeq(s, Len(s) - Len(p) + 1, Len(s)) = p

TrimPrefix(s, p) == IF HasPrefix(s, p) THEN SubSeq(s, Len(p) + 1, Len(s)) ELSE s

Contains(s, sub) ==
    \E i \in 0..(Len(s) - Len(sub)) : SubSeq(s, i + 1, i + Len(sub)) = sub

(***************************************************************************)
(* String literals of the source.                                          *)
(***************************************************************************)
sHttp        == <<"h","t","t","p">>
sHttps       == <<"h","t","t","p","s">>
sHttpPrefix  == <<"h","t","t","p",":","/","/">>
sHttpsPrefix == <<"h","t","t","p","s",":","/","/">>
sCloud       == <<"w","e","a","v","i","a","t","e",".","c","l","o","u","d">>
sGrpcLabel   == <<"g","r","p","c","-">>
sColon       == <<":">>
sPort443     == <<":","4","4","3">>
sError       == <<"e","r","r","o","r">>

(***************************************************************************)
(* Go interface{} values.                                                  *)
(***************************************************************************)
Absent        == [t |-> "absent"]
Str(s)        == [t |-> "string", v |-> s]
GoInt(n)      == [t |-> "int", v |-> n]
GoInt64(n)    == [t |-> "int64", v |-> n]
\* a float64 is the rational num/den
F64(n, d)     == [t |-> "float64", num |-> n, den |-> d]
Bool(b)       == [t |-> "bool", v |-> b]
IsString(x)   == x.t = "string"

\* conversion of a float64 to an integer type: truncation toward zero
Trunc(x) == IF x.num >= 0 THEN x.num \div x.den ELSE -((-x.num) \div x.den)

NoErr          == [kind |-> "none"]
OwnErr(m)      == [kind |-> "own", msg |-> m]
OwnErrAt(m, i) == [kind |-> "own", msg |-> m, index |-> i]
LibErr(e)      == [kind |-> "lib", id |-> e]
WrapErr(m, e)  == [kind |-> "wrapped", msg |-> m, cause |-> e]

\* a successful answer of the client library
LibOk(v)       == [kind |-> "ok", value |-> v]

\* the failures the client library can answer with
LibErrors == {LibErr("unreachable")}

Returned(v, e) == [how |-> "return", value |-> v, err |-> e]
\* a failed type assertion or nil dereference: the call does not return
Panicked       == [how |-> "panic"]

NoValue == [t |-> "nil"]

\* as LibFailure, but with the library's error wrapped in one of the operation
LibFailureWrapped(e) == Returned(NoValue, [kind |-> "wrapped", msg |-> "request failed: %w", cause |-> e])

\* "return nil, err": the library's error itself, with no result
LibFailure(e) == Returned(NoValue, e)

(***************************************************************************)
(* Weaviate.NewClient: the endpoint resolver.                              *)
(***************************************************************************)
Second == 1000000000

\* scheme := "http"; overridden by a string cfg["scheme"]
SchemeFromCfg(cfg) == IF IsString(cfg.scheme) THEN cfg.scheme.v ELSE sHttp

\* as SplitHost, but leaving the scheme as the scheme field gave it
SplitHostKeepScheme(scheme, host) ==
    IF HasPrefix(ToLower(host), sHttpPrefix)
    THEN [scheme |-> scheme, host |-> TrimPrefix(host, sHttpPrefix)]
    ELSE IF HasPrefix(ToLower(host), sHttpsPrefix)
    THEN [scheme |-> scheme, host |-> TrimPrefix(host, sHttpsPrefix)]
    ELSE [scheme |-> scheme, host |-> host]

\* the scheme prefix of the host: detected on the lower-cased host, removed
\* with the lower-case literal
SplitHost(scheme, host) ==
    IF HasPrefix(ToLower(host), sHttpPrefix)
    THEN [scheme |-> sHttp, host |-> TrimPrefix(host, sHttpPrefix)]
    ELSE IF HasPrefix(ToLower(host), sHttpsPrefix)
    THEN [scheme |-> sHttps, host |-> TrimPrefix(host, sHttpsPrefix)]
    ELSE [scheme |-> scheme, host |-> host]

\* as ResolveGrpc, but deriving the gRPC host for every host
ResolveGrpcAnyHost(cfg, scheme, host) ==
    IF IsString(cfg.grpcHost)
    THEN [ok |-> TRUE, scheme |-> scheme, grpcHost |-> cfg.grpcHost.v]
    ELSE [ok |-> TRUE, scheme |-> sHttps, grpcHost |-> sGrpcLabel \o host]

\* grpcHost from the config, or derived for a Weaviate Cloud host
ResolveGrpc(cfg, scheme, host) ==
    IF IsString(cfg.grpcHost)
    THEN [ok |-> TRUE, scheme |-> scheme, grpcHost |-> cfg.grpcHost.v]
    ELSE IF Contains(host, sCloud)
    THEN [ok |-> TRUE, scheme |-> sHttps, grpcHost |-> sGrpcLabel \o host]
    ELSE [ok |-> FALSE, scheme |-> scheme, grpcHost |-> <<>>]

\* port 443 and https for a Weaviate Cloud host without a port
CloudPort(scheme, host, grpcHost) ==
    IF Contains(host, sCloud) /\ ~Contains(host, sColon)
    THEN [scheme   |-> sHttps,
          host     |-> host \o sPort443,
          grpcHost |-> IF ~Contains(grpcHost, sColon)
                       THEN grpcHost \o sPort443 ELSE grpcHost]
    ELSE [scheme |-> scheme, host |-> host, grpcHost |-> grpcHost]

NoAuth == [kind |-> "none"]

\* as AuthFromCfg, but looking at the API key first
AuthFromCfgKeyFirst(cfg) ==
    IF IsString(cfg.apiKey)
    THEN [kind |-> "ApiKey", Value |-> cfg.apiKey.v]
    ELSE IF IsString(cfg.authToken)
    THEN [kind |-> "BearerToken", AccessToken |-> cfg.authToken.v]
    ELSE NoAuth

AuthFromCfg(cfg) ==
    IF IsString(cfg.authToken)
    THEN [kind |-> "BearerToken", AccessToken |-> cfg.authToken.v]
    ELSE IF IsString(cfg.apiKey)
    THEN [kind |-> "ApiKey", Value |-> cfg.apiKey.v]
    ELSE NoAuth

NoHeaders == [t |-> "nil"]

HeadersFromCfg(cfg) ==
    IF cfg.headers.t = "map[string]string" THEN cfg.headers ELSE NoHeaders

\* time.Duration(timeout) * time.Second, in nanoseconds; 0 when not set
TimeoutFromCfg(cfg) ==
    IF cfg.timeout.t = "float64" THEN Trunc(cfg.timeout) * Second ELSE 0

\* the weaviate.Config built from cfg, or the configuration error
BuildConfig(cfg) ==
    IF ~IsString(cfg.host)
    THEN [ok |-> FALSE, err |-> OwnErr("host is required in config")]
    ELSE LET s0 == SchemeFromCfg(cfg)
             h  == SplitHost(s0, cfg.host.v)
             g  == ResolveGrpc(cfg, h.scheme, h.host)
             c  == CloudPort(g.scheme, h.host, g.grpcHost)
         IN  IF ~g.ok
             THEN [ok |-> FALSE, err |-> OwnErr("grpcHost is required in config")]
             ELSE [ok |-> TRUE,
                   config |-> [Host           |-> c.host,
                               Scheme         |-> c.scheme,
                               GrpcHost       |-> c.grpcHost,
                               AuthConfig     |-> AuthFromCfg(cfg),
                               Headers        |-> HeadersFromCfg(cfg),
                               StartupTimeout |-> TimeoutFromCfg(cfg)]]

\* the error NewClient returns when the library's constructor fails
\* as ConstructorError, but handing the library's error on as it is
ConstructorErrorBare(e) == e

ConstructorError(e) == WrapErr("failed to create weaviate client: %w", e)

\* the call of the library made by an operation
LibCall(api, req) == [api |-> api, req |-> req]

(***************************************************************************)
(* Configurations handed to newClient.                                     *)
(***************************************************************************)
sUpperHttps == <<"H","T","T","P","S",":","/","/">>
sMixedHttp  == <<"H","t","t","p",":","/","/">>
sLocalhost  == <<"l","o","c","a","l","h","o","s","t">>
sCloudHost  == <<"m","y",".">> \o sCloud
sPort8080   == <<":","8","0","8","0">>
sGrpcPlain  == <<"g","r","p","c",".","l","o","c","a","l">>
sGrpcPorted == sGrpcPlain \o <<":","5","0","0","5","1">>

HostPrefixes == {<<>>, sHttpPrefix, sHttpsPrefix, sUpperHttps, sMixedHttp}
HostBodies   == {sLocalhost, sCloudHost}
HostPorts    == {<<>>, sPort443, sPort8080}

HostStrings == {p \o b \o q : p \in HostPrefixes, b \in HostBodies, q \in HostPorts}

MapSS == [t |-> "map[string]string", v |-> "X-Header"]
MapSI == [t |-> "map[string]interface{}", v |-> "X-Header"]

Configs ==
    [scheme    : {Absent, Str(sHttp), Str(sHttps)},
     host      : {Absent} \cup {Str(h) : h \in HostStrings},
     grpcHost  : {Absent, GoInt(50051), Str(sGrpcPlain), Str(sGrpcPorted)},
     authToken : {Absent, Str("token")},
     apiKey    : {Absent, Str("key")},
     headers   : {Absent, MapSS, MapSI},
     timeout   : {Absent, F64(5, 2), GoInt64(5)}]

(***************************************************************************)
(* Client.BatchCreate: the batch marshaller.                               *)
(***************************************************************************)
F32(n, d)      == [t |-> "float32", num |-> n, den |-> d]
Float32s(v)    == [t |-> "[]float32", v |-> v]
Generics(v)    == [t |-> "[]interface{}", v |-> v]
Strings(v)     == [t |-> "[]string", v |-> v]
GenericMap(m)  == [t |-> "map[string]interface{}", v |-> m]
IsGenericMap(x) == x.t = "map[string]interface{}"

Min(S) == CHOOSE x \in S : \A y \in S : x <= y

\* as MissingClass, but taking any value of class for a class name
MissingClassIfAbsent(objects) == {i \in DOMAIN objects : objects[i].class.t = "absent"}

\* the positions of the objects without a string class
MissingClass(objects) == {i \in DOMAIN objects : ~IsString(objects[i].class)}

\* the error for the first object without a class; Go counts from 0
MissingClassError(objects) ==
    OwnErrAt("object at index %d missing class name", Min(MissingClass(objects)) - 1)

\* the named vectors of a "vectors" mapping that are []float32
NamedFloat32(m) == [n \in {k \in DOMAIN m : m[k].t = "[]float32"} |-> m[n]]

\* as BatchVectors, but with the single vector taken beside the named ones
BatchVectorsBoth(obj) ==
    [Vectors |-> IF IsGenericMap(obj.vectors)
                 THEN [t |-> "Vectors", v |-> NamedFloat32(obj.vectors.v)] ELSE NoValue,
     Vector  |-> IF obj.vector.t = "[]float32" THEN obj.vector ELSE NoValue]

\* vectors are looked at first, the single vector only without them
BatchVectors(obj) ==
    IF IsGenericMap(obj.vectors)
    THEN [Vectors |-> [t |-> "Vectors", v |-> NamedFloat32(obj.vectors.v)],
          Vector  |-> NoValue]
    ELSE IF obj.vector.t = "[]float32"
    THEN [Vectors |-> NoValue, Vector |-> obj.vector]
    ELSE [Vectors |-> NoValue, Vector |-> NoValue]

\* the models.Object built for one object mapping that has a class
BatchObject(obj) ==
    [Class         |-> obj.class.v,
     ID            |-> IF IsString(obj.id) THEN obj.id.v ELSE "",
     Properties    |-> IF IsGenericMap(obj.properties) THEN obj.properties ELSE NoValue,
     Vectors       |-> BatchVectors(obj).Vectors,
     Vector        |-> BatchVectors(obj).Vector,
     VectorWeights |-> IF obj.vectorWeights.t = "map[string]float32"
                       THEN obj.vectorWeights ELSE NoValue,
     Tenant        |-> IF IsString(obj.tenant) THEN obj.tenant.v ELSE ""]

BatchRequest(objects) == [i \in DOMAIN objects |-> BatchObject(objects[i])]

\* reading *result.Result.Status of a result without a result block or
\* without a status is a nil dereference
CreateEntryPanics(result) ==
    \/ result.Result.t = "nil"
    \/ result.Result.Status.t = "nil"

\* the mapping made of one library result
CreateEntry(result) ==
    IF result.Result.Errors.t # "nil"
    THEN [class  |-> result.Class,
          id     |-> result.ID,
          status |-> sError,
          error  |-> result.Result.Errors.Error]
    ELSE [class  |-> result.Class,
          id     |-> result.ID,
          status |-> ToLower(result.Result.Status.v)]

\* the results are converted in order; the first unreadable one ends the call
BatchCreateOutput(results) ==
    IF \E i \in DOMAIN results : CreateEntryPanics(results[i])
    THEN Panicked
    ELSE Returned([i \in DOMAIN results |-> CreateEntry(results[i])], NoErr)

(***************************************************************************)
(* Object mappings handed to batchCreate, and the library's results.       *)
(***************************************************************************)
NoFields ==
    [class |-> Absent, id |-> Absent, properties |-> Absent, vectors |-> Absent,
     vector |-> Absent, vectorWeights |-> Absent, tenant |-> Absent]

Props == GenericMap("title")

ObjPlain    == [NoFields EXCEPT !.class = Str("A")]
ObjFull     == [NoFields EXCEPT !.class = Str("B"), !.id = Str("id-1"),
                                !.properties = Props,
                                !.vector = Float32s(<<F32(1, 2), F32(1, 4)>>),
                                !.vectorWeights = [t |-> "map[string]float32", v |-> "w"],
                                !.tenant = Str("tenant-1")]
ObjNamed    == [NoFields EXCEPT !.class = Str("A"), !.id = Str("id-2"),
                                !.vectors = GenericMap(
                                    [n \in {"title", "body"} |->
                                       IF n = "title"
                                       THEN Float32s(<<F32(1, 2)>>)
                                       ELSE Generics(<<F64(3, 4)>>)]),
                                !.vector = Float32s(<<F32(1, 1)>>)]
ObjGeneric  == [NoFields EXCEPT !.class = Str("A"), !.id = Str("id-3"),
                                !.vector = Generics(<<F64(1, 2), F64(1, 4)>>)]
ObjUnusable == [NoFields EXCEPT !.class = Str("A"), !.id = Str("id-6"),
                                !.vectors = GenericMap(
                                    [n \in {"title"} |-> Generics(<<F64(1, 2), F64(1, 4)>>)]),
                                !.vector = Float32s(<<F32(1, 1)>>)]
ObjNoClass  == [NoFields EXCEPT !.id = Str("id-4"), !.properties = Props]
ObjNumClass == [NoFields EXCEPT !.class = GoInt(7), !.id = Str("id-5")]

ObjectMappings ==
    {ObjPlain, ObjFull, ObjNamed, ObjGeneric, ObjUnusable, ObjNoClass, ObjNumClass}

Batches == UNION {[1..n -> ObjectMappings] : n \in 0..MaxBatch}

sSUCCESS == <<"S","U","C","C","E","S","S">>
sFAILED  == <<"F","A","I","L","E","D">>
sPENDING == <<"P","E","N","D","I","N","G">>

NilPtr         == [t |-> "nil"]
ErrorPayload   == [t |-> "ErrorResponse", Error |-> "conflict"]
ResultBlock(status, errors) == [t |-> "result", Status |-> status, Errors |-> errors]

\* the result blocks models.ObjectsGetResponse can carry: the block and its
\* status are pointers, the errors are an optional payload
ResultBlocks ==
    {NilPtr, ResultBlock(NilPtr, NilPtr)}
    \cup {ResultBlock(Str(st), NilPtr) : st \in {sSUCCESS, sFAILED, sPENDING}}
    \cup {ResultBlock(Str(st), ErrorPayload) : st \in {sSUCCESS, sFAILED}}

\* the library answers with one result per submitted object, in the order
\* of submission; an object sent without an id is given one
BatchReplies(req) ==
    {[i \in DOMAIN req |->
        [Class  |-> req[i].Class,
         ID     |-> IF req[i].ID = "" THEN "new-" \o ToString(i) ELSE req[i].ID,
         Result |-> blocks[i]]] : blocks \in [DOMAIN req -> ResultBlocks]}

(***************************************************************************)
(* The consistency levels: replicationMap of BatchDelete and ObjectInsert. *)
(***************************************************************************)
ReplicationKeys == {"all", "one", "quorum"}

\* replicationMap[k]: a Go map answers a key it does not hold with ""
ReplicationMap(k) ==
    CASE k = "all"    -> "ALL"
      [] k = "one"    -> "ONE"
      [] k = "quorum" -> "QUORUM"
      [] OTHER        -> ""

(***************************************************************************)
(* Client.BatchDelete: the filter builder.                                 *)
(***************************************************************************)
WhereOperators == {"Equal", "Like", "ContainsAny", "LessThan"}

\* as WhereOperator, but handing every operator string to the filter
WhereOperatorUnchecked(w) == IF IsString(w.operator) THEN w.operator.v ELSE ""

\* the operator of the filter: set for the four names of the switch
WhereOperator(w) ==
    IF IsString(w.operator) /\ w.operator.v \in WhereOperators
    THEN w.operator.v
    ELSE ""

\* v.(string) on every element of a []interface{}
\* as HasNonString, but taking every element for a string
HasNonStringNever(list) == FALSE

HasNonString(list) == \E i \in DOMAIN list : ~IsString(list[i])
StringsOf(list)    == [i \in DOMAIN list |-> list[i].v]

WherePath(w) ==
    IF w.path.t = "[]string" THEN w.path.v
    ELSE IF w.path.t = "[]interface{}" THEN StringsOf(w.path.v)
    ELSE NoValue

WhereValueString(w) == IF IsString(w.valueString) THEN w.valueString.v ELSE NoValue

WhereValueText(w) ==
    IF w.valueText.t = "[]interface{}" THEN StringsOf(w.valueText.v)
    ELSE IF IsString(w.valueText) THEN <<w.valueText.v>>
    ELSE NoValue

\* a non-string element of path or valueText fails its type assertion
WherePanics(w) ==
    \/ w.path.t = "[]interface{}" /\ HasNonString(w.path.v)
    \/ w.valueText.t = "[]interface{}" /\ HasNonString(w.valueText.v)

WhereFilter(w) ==
    [t           |-> "where",
     operator    |-> WhereOperator(w),
     path        |-> WherePath(w),
     valueString |-> WhereValueString(w),
     valueText   |-> WhereValueText(w)]

\* the consistency level handed to the batch deleter
DeleteConsistency(options) ==
    IF IsString(options.consistencyLevel)
    THEN ReplicationMap(options.consistencyLevel.v)
    ELSE ""

DeletePanics(options) == IsGenericMap(options.where) /\ WherePanics(options.where.v)

\* the request the batch deleter holds when Do is called
DeleteRequest(className, options) ==
    [ClassName        |-> className,
     Where            |-> IF IsGenericMap(options.where)
                          THEN WhereFilter(options.where.v) ELSE NoValue,
     DryRun           |-> IF options.dryRun.t = "bool" THEN options.dryRun ELSE NoValue,
     Output           |-> IF IsString(options.output) THEN options.output.v ELSE "",
     Tenant           |-> IF IsString(options.tenant) THEN options.tenant.v ELSE "",
     ConsistencyLevel |-> DeleteConsistency(options)]

\* *obj.Status of an object without a status is a nil dereference
DeleteEntryPanics(obj) == obj.Status.t = "nil"

\* as DeleteEntry, but with the status forced as CreateEntry forces it
DeleteEntryForced(obj) ==
    IF obj.Errors.t # "nil"
    THEN [id |-> obj.ID, status |-> sError, error |-> obj.Errors.Error]
    ELSE [id |-> obj.ID, status |-> ToLower(obj.Status.v)]

DeleteEntry(obj) ==
    IF obj.Errors.t # "nil"
    THEN [id |-> obj.ID, status |-> ToLower(obj.Status.v), error |-> obj.Errors.Error]
    ELSE [id |-> obj.ID, status |-> ToLower(obj.Status.v)]

\* the summary made of the library's response
BatchDeleteOutput(response) ==
    IF response.Results.t = "nil" THEN Panicked
    ELSE IF response.Results.Objects.t = "nil"
    THEN Returned([matches    |-> response.Results.Matches,
                   successful |-> response.Results.Successful,
                   failed     |-> response.Results.Failed], NoErr)
    ELSE IF \E i \in DOMAIN response.Results.Objects.v :
                DeleteEntryPanics(response.Results.Objects.v[i])
    THEN Panicked
    ELSE Returned([matches    |-> response.Results.Matches,
                   successful |-> response.Results.Successful,
                   failed     |-> response.Results.Failed,
                   objects    |-> [i \in DOMAIN response.Results.Objects.v |->
                                     DeleteEntry(response.Results.Objects.v[i])]],
                  NoErr)

(***************************************************************************)
(* Options handed to batchDelete, and the library's responses.             *)
(***************************************************************************)
ClassName == "Things"

ConsistencyInputs ==
    {Absent, Str("all"), Str("one"), Str("quorum"), Str("ALL"), Str("invalid")}

WhereMappings ==
    [operator    : {Absent} \cup {Str(o) : o \in WhereOperators \cup {"GreaterThan"}},
     path        : {Absent, Strings(<<"title">>), Generics(<<Str("title")>>),
                    Generics(<<Str("title"), GoInt(1)>>)},
     valueString : {Absent, Str("x")},
     valueText   : {Absent, Str("*"), Generics(<<Str("a"), Str("b")>>),
                    Generics(<<GoInt(1)>>)}]

DeleteOptions ==
    [where            : {Absent} \cup {GenericMap(w) : w \in WhereMappings},
     dryRun           : {Absent, Bool(TRUE)},
     output           : {Absent, Str("verbose")},
     tenant           : {Absent, Str("tenant-1")},
     consistencyLevel : ConsistencyInputs]

sDRYRUN == <<"D","R","Y","R","U","N">>

DeletedObject(id, status, errors) == [ID |-> id, Status |-> status, Errors |-> errors]

DeleteResults(objects) ==
    [Results |-> [t |-> "results", Matches |-> 2, Successful |-> 1, Failed |-> 1,
                  Objects |-> objects]]

DeleteResponses ==
    {[Results |-> NilPtr],
     DeleteResults(NilPtr),
     DeleteResults([t |-> "objects", v |-> <<DeletedObject("id-1", Str(sDRYRUN), NilPtr)>>]),
     DeleteResults([t |-> "objects", v |-> <<DeletedObject("id-1", Str(sSUCCESS), NilPtr),
                                             DeletedObject("id-2", Str(sFAILED), ErrorPayload)>>]),
     DeleteResults([t |-> "objects", v |-> <<DeletedObject("id-1", NilPtr, NilPtr)>>])}

(***************************************************************************)
(* Client.ObjectInsert.                                                    *)
(***************************************************************************)
\* float32(f) of a float64; an element that is no float64 leaves the zero
ToFloat32(x) == IF x.t = "float64" THEN F32(x.num, x.den) ELSE F32(0, 1)

ToFloat32s(list) == [i \in DOMAIN list |-> ToFloat32(list[i])]

\* the named vectors of a "vectors" mapping that are generic sequences
NamedGeneric(m) ==
    [n \in {k \in DOMAIN m : m[k].t = "[]interface{}"} |-> Float32s(ToFloat32s(m[n].v))]

\* as InsertRejects, but as lenient as the batch deleter
InsertRejectsNothing(object) == FALSE

\* an unknown consistency level ends the call before the insert
InsertRejects(object) ==
    IsString(object.consistencyLevel) /\ object.consistencyLevel.v \notin ReplicationKeys

InsertError(object) == [kind |-> "own", msg |-> "invalid consistency level: %s",
                        level |-> object.consistencyLevel.v]

\* the request the creator holds when Do is called
InsertRequest(className, object) ==
    [ClassName        |-> className,
     ID               |-> IF IsString(object.id) THEN object.id.v ELSE "",
     Properties       |-> IF IsGenericMap(object.properties)
                          THEN object.properties ELSE NoValue,
     Vector           |-> IF object.vector.t = "[]interface{}"
                          THEN Float32s(ToFloat32s(object.vector.v)) ELSE NoValue,
     Vectors          |-> IF IsGenericMap(object.vectors)
                          THEN [t |-> "Vectors", v |-> NamedGeneric(object.vectors.v)]
                          ELSE NoValue,
     Tenant           |-> IF IsString(object.tenant) THEN object.tenant.v ELSE "",
     ConsistencyLevel |-> IF IsString(object.consistencyLevel)
                          THEN ReplicationMap(object.consistencyLevel.v) ELSE ""]

\* as InsertCalls, but with the level looked at after the insert
InsertCallsUnchecked(className, object) ==
    <<LibCall("Creator", InsertRequest(className, object))>>

\* the library calls of an insert: creator.Do comes after the check of the
\* consistency level
InsertCalls(className, object) ==
    IF InsertRejects(object) THEN <<>>
    ELSE <<LibCall("Creator", InsertRequest(className, object))>>

\* len(x) > 0 of a vector or of the named vectors
NonEmptyVector(x)  == x.t = "[]float32" /\ Len(x.v) > 0
NonEmptyVectors(x) == x.t = "Vectors" /\ DOMAIN x.v # {}

\* the mapping made of the object the library answers with: the fields
\* the Go map holds are those whose value is not NoValue
InsertOutput(wrapper) ==
    Returned([id         |-> wrapper.Object.ID,
              properties |-> wrapper.Object.Properties,
              vector     |-> IF NonEmptyVector(wrapper.Object.Vector)
                             THEN wrapper.Object.Vector ELSE NoValue,
              vectors    |-> IF NonEmptyVectors(wrapper.Object.Vectors)
                             THEN wrapper.Object.Vectors ELSE NoValue,
              tenant     |-> IF wrapper.Object.Tenant # ""
                             THEN Str(wrapper.Object.Tenant) ELSE NoValue],
             NoErr)

(***************************************************************************)
(* Object mappings handed to objectInsert, and the library's answer.       *)
(***************************************************************************)
InsertObjects ==
    [id               : {Absent, Str("id-1")},
     properties       : {Absent, Props},
     vector           : {Absent, Generics(<<F64(1, 2), F64(1, 4), F64(3, 4)>>),
                         Generics(<<F64(1, 2), GoInt(1)>>),
                         Float32s(<<F32(1, 2)>>)},
     vectors          : {Absent,
                         GenericMap([n \in {"title", "body"} |->
                                       IF n = "title" THEN Generics(<<F64(1, 2)>>)
                                       ELSE Float32s(<<F32(1, 4)>>)]),
                         GenericMap([n \in {"title", "body"} |->
                                       IF n = "title" THEN Generics(<<F64(1, 2), Str("x")>>)
                                       ELSE Generics(<<>>)])},
     tenant           : {Absent, Str("tenant-1")},
     consistencyLevel : ConsistencyInputs]

\* the library answers an insert with the object as stored; an object sent
\* without an id is given one
InsertReply(req) ==
    [Object |-> [ID         |-> IF req.ID = "" THEN "new-1" ELSE req.ID,
                 Properties |-> req.Properties,
                 Vector     |-> req.Vector,
                 Vectors    |-> req.Vectors,
                 Tenant     |-> req.Tenant]]

(***************************************************************************)
(* ToInt and strconv.Atoi.                                                 *)
(***************************************************************************)
Digits == <<"0","1","2","3","4","5","6","7","8","9">>

IsDigit(c)  == \E i \in DOMAIN Digits : Digits[i] = c
DigitVal(c) == (CHOOSE i \in DOMAIN Digits : Digits[i] = c) - 1

\* the digits of a decimal string, after an optional sign
Unsigned(s) == IF s # <<>> /\ s[1] \in {"+", "-"} THEN Tail(s) ELSE s

AtoiOk(s) == Unsigned(s) # <<>> /\ \A i \in DOMAIN Unsigned(s) : IsDigit(Unsigned(s)[i])

RECURSIVE DecimalVal(_)
DecimalVal(d) ==
    IF d = <<>> THEN 0
    ELSE 10 * DecimalVal(SubSeq(d, 1, Len(d) - 1)) + DigitVal(d[Len(d)])

AtoiVal(s) == IF s[1] = "-" THEN -DecimalVal(Unsigned(s)) ELSE DecimalVal(Unsigned(s))

\* the kinds ToInt reads by reflection
ReflectInts   == {"int8", "int16", "int32", "uint", "uint8", "uint16", "uint32", "uint64"}
ReflectFloats == {"float32"}

\* as ToIntOk, but without the case for strings
ToIntOkNoStrings(val) ==
    val.t \in {"int", "int64", "float64"} \cup ReflectInts \cup ReflectFloats

\* ToInt's found flag
ToIntOk(val) ==
    \/ val.t \in {"int", "int64", "float64"}
    \/ val.t = "string" /\ AtoiOk(val.v)
    \/ val.t \in ReflectInts \cup ReflectFloats

\* ToInt's value, when found
ToIntVal(val) ==
    IF val.t \in {"float64"} \cup ReflectFloats THEN Trunc(val)
    ELSE IF val.t = "string" THEN AtoiVal(val.v)
    ELSE val.v

(***************************************************************************)
(* Client.FetchObjects.                                                    *)
(***************************************************************************)
\* the names the loops over "additional" go through: a generic sequence is
\* copied into a string slice first, an element that is no string leaving ""
AdditionalNames(options) ==
    IF options.additional.t = "[]interface{}"
    THEN [i \in DOMAIN options.additional.v |->
            IF IsString(options.additional.v[i]) THEN options.additional.v[i].v ELSE ""]
    ELSE IF options.additional.t = "[]string"
    THEN options.additional.v
    ELSE <<>>

\* as IsPlainAdditional, but without the case for "id"
IsPlainAdditionalOrId(n) == n # "vector"

IsPlainAdditional(n) == n # "vector" /\ n # "id"

\* WithVector() is called for "vector"
FetchWithVector(options) ==
    \E i \in DOMAIN AdditionalNames(options) : AdditionalNames(options)[i] = "vector"

\* WithAdditional(prop) is called for every name but "vector" and "id"
FetchAdditional(options) == SelectSeq(AdditionalNames(options), IsPlainAdditional)

\* as FetchInt, but never calling WithLimit / WithOffset
FetchIntUnset(val) == NoValue

FetchInt(val) == IF val.t # "absent" /\ ToIntOk(val) THEN GoInt(ToIntVal(val)) ELSE NoValue

FetchString(val) == IF IsString(val) THEN val.v ELSE ""

\* the query the getter holds when Do is called
FetchRequest(className, options) ==
    [ClassName        |-> className,
     ID               |-> FetchString(options.id),
     Limit            |-> FetchInt(options.limit),
     Offset           |-> FetchInt(options.offset),
     After            |-> FetchString(options.after),
     ConsistencyLevel |-> FetchString(options.consistencyLevel),
     Tenant           |-> FetchString(options.tenant),
     NodeName         |-> FetchString(options.nodeName),
     WithVector       |-> FetchWithVector(options),
     Additional       |-> FetchAdditional(options)]

\* the mapping made of one object of the answer: the fields the Go map
\* holds are those whose value is not NoValue
FetchItem(obj) ==
    [id         |-> obj.ID,
     properties |-> obj.Properties,
     vector     |-> IF NonEmptyVector(obj.Vector) THEN obj.Vector ELSE NoValue,
     vectors    |-> IF NonEmptyVectors(obj.Vectors)
                    THEN GenericMap(obj.Vectors.v) ELSE NoValue,
     additional |-> obj.Additional]

FetchOutput(objects) ==
    Returned([objects |-> [i \in DOMAIN objects |-> FetchItem(objects[i])]], NoErr)

(***************************************************************************)
(* Options handed to fetchObjects, and the library's answers.              *)
(***************************************************************************)
SeqsUpTo(S, n) == UNION {[1..k -> S] : k \in 0..n}

AdditionalWords == {"id", "vector", "distance"}

AdditionalInputs ==
    {Absent}
    \cup {Strings(l) : l \in SeqsUpTo(AdditionalWords, MaxAdditional)}
    \cup {Generics(l) : l \in SeqsUpTo({Str(w) : w \in AdditionalWords} \cup {GoInt(1)},
                                       MaxAdditional)}

FetchOptions ==
    [id               : {Absent, Str("id-1")},
     limit            : {Absent, GoInt(2), F64(5, 2), Str(<<"x">>),
                         F64(-5, 2), Bool(TRUE), NoValue, GenericMap("n")},
     offset           : {Absent, Str(<<"1","0">>), Generics(<<GoInt(1)>>)},
     after            : {Absent, Str("id-0")},
     consistencyLevel : {Absent, Str("QUORUM")},
     tenant           : {Absent, Str("tenant-1")},
     nodeName         : {Absent, Str("node-1")},
     additional       : AdditionalInputs]

\* the objects of the collection, as the library answers a query for them:
\* the vector comes with WithVector, the additional block with WithAdditional
FoundObject(id, req) ==
    [ID         |-> id,
     Properties |-> Props,
     Vector     |-> IF req.WithVector THEN Float32s(<<F32(1, 2), F32(1, 4)>>) ELSE NoValue,
     Vectors    |-> NoValue,
     Additional |-> IF req.Additional # <<>>
                    THEN [t |-> "AdditionalProperties", v |-> req.Additional]
                    ELSE NoValue]

FetchReplies(req) == {<<>>, <<FoundObject("id-1", req), FoundObject("id-2", req)>>}

(***************************************************************************)
(* The coercion helpers and Client.CreateCollection.  A mapping is a       *)
(* record of its keys, a key it does not hold being Absent.                *)
(***************************************************************************)
Maps(v) == [t |-> "[]map[string]interface{}", v |-> v]

GetStringValue(m, key) == IF IsString(m[key]) THEN m[key].v ELSE ""

GetBoolValue(m, key, defaultValue) == IF m[key].t = "bool" THEN m[key].v ELSE defaultValue

\* v.(string) of an element that is no string
GetStringSlicePanics(val) == val.t = "[]interface{}" /\ HasNonString(val.v)

\* the string slice of a generic sequence; nil for anything else
GetStringSlice(val) ==
    IF val.t = "[]interface{}" THEN Strings(StringsOf(val.v)) ELSE NoValue

\* the named vector configurations: an entry that is no mapping is left out
VectorConfigOf(configMap) ==
    [Vectorizer        |-> IF IsGenericMap(configMap.vectorizer)
                           THEN configMap.vectorizer ELSE NoValue,
     VectorIndexType   |-> GetStringValue(configMap, "vectorIndexType"),
     VectorIndexConfig |-> IF IsGenericMap(configMap.vectorIndexConfig)
                           THEN configMap.vectorIndexConfig ELSE NoValue]

VectorConfigs(vectorConfig) ==
    [n \in {k \in DOMAIN vectorConfig : IsGenericMap(vectorConfig[k])} |->
       VectorConfigOf(vectorConfig[n].v)]

\* bm25Config["k1"].(float32) and bm25Config["b"].(float32)
Bm25Panics(inverted) ==
    /\ IsGenericMap(inverted.bm25)
    /\ inverted.bm25.v.k1.t # "float32" \/ inverted.bm25.v.b.t # "float32"

\* stopwords["preset"].(string) and the two string slices
StopwordsPanics(inverted) ==
    /\ IsGenericMap(inverted.stopwords)
    /\ \/ ~IsString(inverted.stopwords.v.preset)
       \/ GetStringSlicePanics(inverted.stopwords.v.additions)
       \/ GetStringSlicePanics(inverted.stopwords.v.removals)

InvertedIndexConfig(inverted) ==
    [Bm25      |-> IF IsGenericMap(inverted.bm25)
                   THEN [K1 |-> inverted.bm25.v.k1, B |-> inverted.bm25.v.b]
                   ELSE NilPtr,
     Stopwords |-> IF IsGenericMap(inverted.stopwords)
                   THEN [Preset    |-> inverted.stopwords.v.preset.v,
                         Additions |-> GetStringSlice(inverted.stopwords.v.additions),
                         Removals  |-> GetStringSlice(inverted.stopwords.v.removals)]
                   ELSE NilPtr]

MultiTenancyConfig(multiTenancy) ==
    [Enabled              |-> GetBoolValue(multiTenancy, "enabled", FALSE),
     AutoTenantCreation   |-> GetBoolValue(multiTenancy, "autoTenantCreation", FALSE),
     AutoTenantActivation |-> GetBoolValue(multiTenancy, "autoTenantActivation", FALSE)]

\* the switch over the type of the factor
ReplicationFactor(v) ==
    IF v.t \in {"int64", "int"} THEN v.v
    ELSE IF v.t = "float64" THEN Trunc(v)
    ELSE 1

ReplicationConfig(replicationConfig) ==
    [Factor           |-> ReplicationFactor(replicationConfig.factor),
     AsyncEnabled     |-> GetBoolValue(replicationConfig, "asyncEnabled", FALSE),
     DeletionStrategy |-> GetStringValue(replicationConfig, "deletionStrategy")]

\* propMap["name"].(string) and the string slice of the data type
PropertyPanics(propMap) ==
    ~IsString(propMap.name) \/ GetStringSlicePanics(propMap.dataType)

PropertyOf(propMap) ==
    [Name         |-> propMap.name.v,
     Description  |-> GetStringValue(propMap, "description"),
     DataType     |-> GetStringSlice(propMap.dataType),
     Tokenization |-> GetStringValue(propMap, "tokenization")]

\* the entries of "properties" the loop builds a property from: a generic
\* sequence is gone through, its entries that are no mapping are passed over
PropertyMaps(properties) ==
    IF properties.t = "[]interface{}" THEN SelectSeq(properties.v, IsGenericMap) ELSE <<>>

CollectionProperties(properties) ==
    [i \in DOMAIN PropertyMaps(properties) |-> PropertyOf(PropertyMaps(properties)[i].v)]

CollectionPanics(cfg) ==
    \/ /\ IsGenericMap(cfg.invertedIndexConfig)
       /\ \/ Bm25Panics(cfg.invertedIndexConfig.v)
          \/ StopwordsPanics(cfg.invertedIndexConfig.v)
    \/ \E i \in DOMAIN PropertyMaps(cfg.properties) :
         PropertyPanics(PropertyMaps(cfg.properties)[i].v)

\* the class the creator holds when Do is called
CollectionRequest(collectionName, cfg) ==
    [Class               |-> collectionName,
     Description         |-> GetStringValue(cfg, "description"),
     Properties          |-> CollectionProperties(cfg.properties),
     Vectorizer          |-> GetStringValue(cfg, "vectorizer"),
     VectorIndexType     |-> GetStringValue(cfg, "vectorIndexType"),
     VectorIndexConfig   |-> IF IsGenericMap(cfg.vectorIndexConfig)
                             THEN cfg.vectorIndexConfig ELSE NoValue,
     VectorConfig        |-> IF IsGenericMap(cfg.vectorConfig)
                             THEN VectorConfigs(cfg.vectorConfig.v) ELSE NoValue,
     InvertedIndexConfig |-> IF IsGenericMap(cfg.invertedIndexConfig)
                             THEN InvertedIndexConfig(cfg.invertedIndexConfig.v)
                             ELSE NilPtr,
     MultiTenancyConfig  |-> IF IsGenericMap(cfg.multiTenancy)
                             THEN MultiTenancyConfig(cfg.multiTenancy.v) ELSE NilPtr,
     ReplicationConfig   |-> IF IsGenericMap(cfg.replicationConfig)
                             THEN ReplicationConfig(cfg.replicationConfig.v) ELSE NilPtr]

(***************************************************************************)
(* Collection mappings handed to createCollection.                         *)
(***************************************************************************)
PropertyMap(name, dataType) ==
    GenericMap([name |-> name, description |-> Absent,
                dataType |-> dataType, tokenization |-> Absent])

PropTitle     == PropertyMap(Str("title"), Generics(<<Str("text")>>))
PropNoType    == PropertyMap(Str("title"), Absent)
PropEmptyType == PropertyMap(Str("title"), Generics(<<>>))
PropTypedType == PropertyMap(Str("title"), Strings(<<"text">>))
PropBadType   == PropertyMap(Str("title"), Generics(<<Str("text"), GoInt(1)>>))
PropNoName    == PropertyMap(Absent, Generics(<<Str("text")>>))

PropertyInputs ==
    {Absent,
     Generics(<<>>),
     Generics(<<PropTitle>>),
     Generics(<<PropTitle, PropertyMap(Str("body"), Generics(<<Str("text")>>))>>),
     Generics(<<PropNoType>>),
     Generics(<<PropTitle, PropEmptyType>>),
     Generics(<<PropTypedType>>),
     Generics(<<PropBadType>>),
     Generics(<<PropNoName>>),
     Generics(<<PropTitle, PropNoName>>),
     Generics(<<Str("title"), PropTitle>>),
     Maps(<<PropTitle.v>>),
     Maps(<<PropTypedType.v>>)}

StopwordsMap(preset, additions) ==
    GenericMap([preset |-> preset, additions |-> additions, removals |-> Absent])

InvertedMap(bm25, stopwords) == GenericMap([bm25 |-> bm25, stopwords |-> stopwords])

InvertedInputs ==
    {Absent,
     InvertedMap(Absent, Absent),
     InvertedMap(GenericMap([k1 |-> F32(6, 5), b |-> F32(3, 4)]), Absent),
     InvertedMap(GenericMap([k1 |-> F64(6, 5), b |-> F64(3, 4)]), Absent),
     InvertedMap(Absent, StopwordsMap(Str("en"), Generics(<<Str("the")>>))),
     InvertedMap(Absent, StopwordsMap(Absent, Absent)),
     InvertedMap(Absent, StopwordsMap(Str("en"), Generics(<<GoInt(1)>>)))}

NamedVectorConfig ==
    GenericMap([n \in {"title", "body"} |->
                  IF n = "title"
                  THEN GenericMap([vectorizer        |-> GenericMap("none"),
                                   vectorIndexType   |-> Str("hnsw"),
                                   vectorIndexConfig |-> Absent])
                  ELSE Str("hnsw")])

ReplicationInput(factor) ==
    GenericMap([factor |-> factor, asyncEnabled |-> Bool(TRUE), deletionStrategy |-> Absent])

CollectionConfigs ==
    [description         : {Absent, Str("a collection")},
     vectorizer          : {Absent, Str("none")},
     vectorIndexType     : {Absent, Str("hnsw")},
     vectorIndexConfig   : {Absent, GenericMap("distance")},
     vectorConfig        : {Absent, NamedVectorConfig},
     invertedIndexConfig : InvertedInputs,
     multiTenancy        : {Absent,
                            GenericMap([enabled |-> Bool(TRUE), autoTenantCreation |-> Absent,
                                        autoTenantActivation |-> Str("yes")])},
     replicationConfig   : {Absent, ReplicationInput(F64(5, 2)), ReplicationInput(Str("3"))},
     properties          : PropertyInputs]

(***************************************************************************)
(* Client.CreateTenant, Client.UpdateTenant, Client.DeleteTenant.          *)
(***************************************************************************)
MaxTenants == 2

\* as CreatedTenants, but with the activity status of the mapping
CreatedTenantsWithStatus(tenants) ==
    [i \in DOMAIN tenants |-> [Name |-> GetStringValue(tenants[i], "name"),
                               ActivityStatus |-> GetStringValue(tenants[i], "activityStatus")]]

CreatedTenants(tenants) ==
    [i \in DOMAIN tenants |-> [Name |-> GetStringValue(tenants[i], "name"),
                               ActivityStatus |-> ""]]

UpdatedTenants(tenants) ==
    [i \in DOMAIN tenants |-> [Name |-> GetStringValue(tenants[i], "name"),
                               ActivityStatus |-> GetStringValue(tenants[i], "activityStatus")]]

TenantsRequest(collectionName, tenants) ==
    [ClassName |-> collectionName, Tenants |-> tenants]

TenantMappings ==
    [name : {Absent, Str("tenant-1"), GoInt(1)}, activityStatus : {Absent, Str("COLD")}]

TenantLists == SeqsUpTo(TenantMappings, MaxTenants)

TenantNames == SeqsUpTo({"tenant-1", "tenant-2"}, MaxTenants)

(***************************************************************************)
(* The calls.  A caller invokes one operation with a fresh mapping, the    *)
(* operation runs to its end, and the caller takes the outcome.            *)
(***************************************************************************)
Idle == op = "idle"

Init ==
    /\ op = "idle"
    /\ args = NoValue
    /\ sent = <<>>
    /\ reply = NoValue
    /\ ret = NoValue
    /\ db = <<>>
    /\ callers = <<>>
    /\ heap = <<>>
    /\ client = NoValue

NewClient ==
    /\ Idle
    /\ UNCHANGED <<db, concVars>>
    /\ \E cfg \in Configs :
         LET b == BuildConfig(cfg) IN
         /\ op' = "newClient"
         /\ args' = cfg
         /\ IF ~b.ok
            THEN /\ sent' = <<>>
                 /\ reply' = NoValue
                 /\ ret' = Returned(NoValue, b.err)
            ELSE /\ sent' = <<LibCall("NewClient", b.config)>>
                 /\ \/ /\ reply' = LibOk(b.config)
                       /\ ret' = Returned([t |-> "Client", client |-> b.config], NoErr)
                    \/ \E e \in LibErrors :
                         /\ reply' = e
                         /\ ret' = Returned(NoValue, ConstructorError(e))

CreateCollection ==
    /\ Idle
    /\ UNCHANGED <<db, concVars>>
    /\ \E cfg \in CollectionConfigs :
         /\ op' = "createCollection"
         /\ args' = [collectionName |-> ClassName, collectionConfig |-> cfg]
         /\ IF CollectionPanics(cfg)
            THEN /\ sent' = <<>>
                 /\ reply' = NoValue
                 /\ ret' = Panicked
            ELSE /\ sent' = <<LibCall("ClassCreator", CollectionRequest(ClassName, cfg))>>
                 /\ \/ \E e \in LibErrors :
                         /\ reply' = e
                         /\ ret' = LibFailure(e)
                    \/ /\ reply' = LibOk(NoValue)
                       /\ ret' = Returned(NoValue, NoErr)

DeleteCollection ==
    /\ Idle
    /\ UNCHANGED <<db, concVars>>
    /\ op' = "deleteCollection"
    /\ args' = [collectionName |-> ClassName]
    /\ sent' = <<LibCall("ClassDeleter", [ClassName |-> ClassName])>>
    /\ \/ \E e \in LibErrors :
            /\ reply' = e
            /\ ret' = LibFailure(e)
       \/ /\ reply' = LibOk(NoValue)
          /\ ret' = Returned(NoValue, NoErr)

DeleteAllCollections ==
    /\ Idle
    /\ UNCHANGED <<db, concVars>>
    /\ op' = "deleteAllCollections"
    /\ args' = NoValue
    /\ sent' = <<LibCall("AllDeleter", NoValue)>>
    /\ \/ \E e \in LibErrors :
            /\ reply' = e
            /\ ret' = LibFailure(e)
       \/ /\ reply' = LibOk(NoValue)
          /\ ret' = Returned(NoValue, NoErr)

CreateTenant ==
    /\ Idle
    /\ UNCHANGED <<db, concVars>>
    /\ \E tenants \in TenantLists :
         /\ op' = "createTenant"
         /\ args' = [collectionName |-> ClassName, tenants |-> tenants]
         /\ sent' = <<LibCall("TenantsCreator",
                              TenantsRequest(ClassName, CreatedTenants(tenants)))>>
         /\ \/ \E e \in LibErrors :
                 /\ reply' = e
                 /\ ret' = LibFailure(e)
            \/ /\ reply' = LibOk(NoValue)
               /\ ret' = Returned(NoValue, NoErr)

UpdateTenant ==
    /\ Idle
    /\ UNCHANGED <<db, concVars>>
    /\ \E tenants \in TenantLists :
         /\ op' = "updateTenant"
         /\ args' = [collectionName |-> ClassName, tenants |-> tenants]
         /\ sent' = <<LibCall("TenantsUpdater",
                              TenantsRequest(ClassName, UpdatedTenants(tenants)))>>
         /\ \/ \E e \in LibErrors :
                 /\ reply' = e
                 /\ ret' = LibFailure(e)
            \/ /\ reply' = LibOk(NoValue)
               /\ ret' = Returned(NoValue, NoErr)

DeleteTenant ==
    /\ Idle
    /\ UNCHANGED <<db, concVars>>
    /\ \E tenantNames \in TenantNames :
         /\ op' = "deleteTenant"
         /\ args' = [collectionName |-> ClassName, tenantNames |-> tenantNames]
         /\ sent' = <<LibCall("TenantsDeleter", TenantsRequest(ClassName, tenantNames))>>
         /\ \/ \E e \in LibErrors :
                 /\ reply' = e
                 /\ ret' = LibFailure(e)
            \/ /\ reply' = LibOk(NoValue)
               /\ ret' = Returned(NoValue, NoErr)

BatchCreate ==
    /\ Idle
    /\ UNCHANGED <<db, concVars>>
    /\ \E objects \in Batches :
         /\ op' = "batchCreate"
         /\ args' = objects
         /\ IF MissingClass(objects) # {}
            THEN /\ sent' = <<>>
                 /\ reply' = NoValue
                 /\ ret' = Returned(NoValue, MissingClassError(objects))
            ELSE /\ sent' = <<LibCall("ObjectsBatcher", BatchRequest(objects))>>
                 /\ \/ \E e \in LibErrors :
                         /\ reply' = e
                         /\ ret' = LibFailure(e)
                    \/ \E results \in BatchReplies(BatchRequest(objects)) :
                         /\ reply' = LibOk(results)
                         /\ ret' = BatchCreateOutput(results)

BatchDelete ==
    /\ Idle
    /\ UNCHANGED <<db, concVars>>
    /\ \E options \in DeleteOptions :
         /\ op' = "batchDelete"
         /\ args' = [className |-> ClassName, options |-> options]
         /\ IF DeletePanics(options)
            THEN /\ sent' = <<>>
                 /\ reply' = NoValue
                 /\ ret' = Panicked
            ELSE /\ sent' = <<LibCall("ObjectsBatchDeleter", DeleteRequest(ClassName, options))>>
                 /\ \/ \E e \in LibErrors :
                         /\ reply' = e
                         /\ ret' = LibFailure(e)
                    \/ \E response \in DeleteResponses :
                         /\ reply' = LibOk(response)
                         /\ ret' = BatchDeleteOutput(response)

ObjectInsert ==
    /\ Idle
    /\ UNCHANGED <<db, concVars>>
    /\ \E object \in InsertObjects :
         /\ op' = "objectInsert"
         /\ args' = [className |-> ClassName, object |-> object]
         /\ IF InsertRejects(object)
            THEN /\ sent' = InsertCalls(ClassName, object)
                 /\ reply' = NoValue
                 /\ ret' = Returned(NoValue, InsertError(object))
            ELSE /\ sent' = InsertCalls(ClassName, object)
                 /\ \/ \E e \in LibErrors :
                         /\ reply' = e
                         /\ ret' = LibFailure(e)
                    \/ /\ reply' = LibOk(InsertReply(InsertRequest(ClassName, object)))
                       /\ ret' = InsertOutput(InsertReply(InsertRequest(ClassName, object)))

FetchObjects ==
    /\ Idle
    /\ UNCHANGED <<db, concVars>>
    /\ \E options \in FetchOptions :
         /\ op' = "fetchObjects"
         /\ args' = [className |-> ClassName, options |-> options]
         /\ sent' = <<LibCall("ObjectsGetter", FetchRequest(ClassName, options))>>
         /\ \/ \E e \in LibErrors :
                 /\ reply' = e
                 /\ ret' = LibFailure(e)
            \/ \E objects \in FetchReplies(FetchRequest(ClassName, options)) :
                 /\ reply' = LibOk(objects)
                 /\ ret' = FetchOutput(objects)

\* the caller consumes the outcome; the mapping is discarded
Return ==
    /\ ~Idle
    /\ UNCHANGED <<db, concVars>>
    /\ op' = "idle"
    /\ args' = NoValue
    /\ sent' = <<>>
    /\ reply' = NoValue
    /\ ret' = NoValue

Next ==
    \/ NewClient
    \/ CreateCollection
    \/ DeleteCollection
    \/ DeleteAllCollections
    \/ CreateTenant
    \/ UpdateTenant
    \/ DeleteTenant
    \/ BatchCreate
    \/ BatchDelete
    \/ ObjectInsert
    \/ FetchObjects
    \/ Return

Spec == Init /\ [][Next]_vars

(***************************************************************************)
(* The server behind the library, as a store of objects.  Under StoreSpec  *)
(* the answers to objectInsert and fetchObjects come from what was stored: *)
(* an insert stores the object of the request, a query by id answers with  *)
(* that object, and a listing answers with the stored objects in the order *)
(* of their ids, Offset of them skipped and at most Limit of them given.   *)
(***************************************************************************)
MaxStored == 5

\* the ids of the objects, in their order
StoredIds == [i \in 1..MaxStored |-> "id-" \o ToString(i - 1)]

IdRank(id) == CHOOSE i \in DOMAIN StoredIds : StoredIds[i] = id

\* vectors as the caller's runtime hands them over: every element a
\* float64, or whole numbers as int64
StoreVectors == {Generics(<<F64(1, 2), F64(1, 4), F64(3, 4)>>),
                 Generics(<<GoInt64(1), GoInt64(0), GoInt64(0)>>)}

StoreObjects ==
    [id               : {Str(StoredIds[i]) : i \in DOMAIN StoredIds},
     properties       : {Props},
     vector           : StoreVectors,
     vectors          : {Absent},
     tenant           : {Absent},
     consistencyLevel : {Absent}]

StoreFetchOptions ==
    [id               : {Absent} \cup {Str(StoredIds[i]) : i \in DOMAIN StoredIds},
     limit            : {Absent, GoInt(2)},
     offset           : {Absent, GoInt(2), GoInt64(4)},
     after            : {Absent},
     consistencyLevel : {Absent},
     tenant           : {Absent},
     nodeName         : {Absent},
     additional       : {Absent, Strings(<<"vector">>)}]

\* the store after the object of a request was added; the mapping the
\* object was made from is kept with it
Stored(store, req, object) ==
    [id \in DOMAIN store \cup {req.ID} |->
       IF id = req.ID
       THEN [Properties |-> req.Properties, Vector |-> req.Vector, inserted |-> object]
       ELSE store[id]]

\* the server takes a new object whose id follows the ids it holds
Storable(store, req) ==
    /\ req.ID # ""
    /\ \A id \in DOMAIN store : IdRank(id) < IdRank(req.ID)

\* the ids the store holds, in their order
StoredOrder(store) == SelectSeq(StoredIds, LAMBDA id : id \in DOMAIN store)

\* the object of an id as a query answers with it
StoredObject(store, id, req) ==
    [ID         |-> id,
     Properties |-> store[id].Properties,
     Vector     |-> IF req.WithVector THEN store[id].Vector ELSE NoValue,
     Vectors    |-> NoValue,
     Additional |-> NoValue]

\* the part of a listing a query asks for
Page(ids, req) ==
    LET o == IF req.Offset = NoValue THEN 0 ELSE req.Offset.v
        l == IF req.Limit = NoValue THEN Len(ids) ELSE req.Limit.v
    IN  SubSeq(ids, o + 1, Min({o + l, Len(ids)}))

\* the server finds the object of a query by id, or lists
Answerable(store, req) == req.ID = "" \/ req.ID \in DOMAIN store

StoreAnswer(store, req) ==
    IF req.ID # ""
    THEN <<StoredObject(store, req.ID, req)>>
    ELSE [i \in DOMAIN Page(StoredOrder(store), req) |->
            StoredObject(store, Page(StoredOrder(store), req)[i], req)]

StoreInsert ==
    /\ Idle
    /\ UNCHANGED concVars
    /\ \E object \in StoreObjects :
         LET req == InsertRequest(ClassName, object) IN
         /\ op' = "objectInsert"
         /\ args' = [className |-> ClassName, object |-> object]
         /\ IF InsertRejects(object)
            THEN /\ sent' = InsertCalls(ClassName, object)
                 /\ reply' = NoValue
                 /\ ret' = Returned(NoValue, InsertError(object))
                 /\ db' = db
            ELSE /\ sent' = InsertCalls(ClassName, object)
                 /\ \/ \E e \in LibErrors :
                         /\ reply' = e
                         /\ ret' = LibFailure(e)
                         /\ db' = db
                    \/ /\ Storable(db, req)
                       /\ reply' = LibOk(InsertReply(req))
                       /\ ret' = InsertOutput(InsertReply(req))
                       /\ db' = Stored(db, req, object)

StoreFetch ==
    /\ Idle
    /\ UNCHANGED <<db, concVars>>
    /\ \E options \in StoreFetchOptions :
         LET req == FetchRequest(ClassName, options) IN
         /\ op' = "fetchObjects"
         /\ args' = [className |-> ClassName, options |-> options]
         /\ sent' = <<LibCall("ObjectsGetter", req)>>
         /\ \/ \E e \in LibErrors :
                 /\ reply' = e
                 /\ ret' = LibFailure(e)
            \/ /\ Answerable(db, req)
               /\ reply' = LibOk(StoreAnswer(db, req))
               /\ ret' = FetchOutput(StoreAnswer(db, req))

StoreNext ==
    \/ StoreInsert
    \/ StoreFetch
    \/ Return

StoreSpec == Init /\ [][StoreNext]_vars

(***************************************************************************)
(* Several callers of one client.  Under ConcSpec the callers share the    *)
(* Client that newClient returned and run their operations step by step,   *)
(* in any interleaving: a call asks the library for a request builder,     *)
(* configures it from its own mapping and submits what the builder holds.  *)
(***************************************************************************)
NumCallers == 2

Callers == 1..NumCallers

\* the identity of the shared client
SharedClient ==
    BuildConfig([scheme |-> Absent, host |-> Str(sLocalhost), grpcHost |-> Str(sGrpcPlain),
                 authToken |-> Absent, apiKey |-> Absent, headers |-> Absent,
                 timeout |-> Absent]).config

\* the calls the callers make
ConcCalls ==
    {[op |-> "batchDelete", options |-> o] :
        o \in {d \in DeleteOptions : /\ d.where = Absent
                                     /\ d.output = Absent
                                     /\ d.tenant = Absent
                                     /\ d.consistencyLevel = Absent}}
    \cup {[op |-> "objectInsert", options |-> o] :
            o \in {i \in InsertObjects : /\ i.properties = Absent
                                         /\ i.vector = Absent
                                         /\ i.vectors = Absent
                                         /\ i.tenant = Absent
                                         /\ i.consistencyLevel = Absent}}
    \cup {[op |-> "fetchObjects", options |-> o] :
            o \in {f \in FetchOptions : /\ f.limit \in {Absent, GoInt(2)}
                                        /\ f.id = Absent
                                        /\ f.offset = Absent
                                        /\ f.after = Absent
                                        /\ f.consistencyLevel = Absent
                                        /\ f.tenant = Absent
                                        /\ f.nodeName = Absent
                                        /\ f.additional = Absent}}

\* the library call an operation makes when it runs alone
RequestAlone(call) ==
    IF call.op = "batchDelete"
    THEN LibCall("ObjectsBatchDeleter", DeleteRequest(ClassName, call.options))
    ELSE IF call.op = "objectInsert"
    THEN LibCall("Creator", InsertRequest(ClassName, call.options))
    ELSE LibCall("ObjectsGetter", FetchRequest(ClassName, call.options))

\* as BuilderOf, but with one builder kept for all the calls of the client
BuilderOfClient(c) == 0

\* the address of the builder of a call: the library makes a new one for
\* each call, so a caller's builder is its own
BuilderOf(c) == c

NotCalling == [pc |-> "idle"]

ConcInit ==
    /\ op = "idle"
    /\ args = NoValue
    /\ sent = <<>>
    /\ reply = NoValue
    /\ ret = NoValue
    /\ db = <<>>
    /\ callers = [c \in Callers |-> NotCalling]
    /\ heap = [a \in 0..NumCallers |-> NoValue]
    /\ client = SharedClient

\* the call reads c.client and takes a builder for the collection
Begin(c) ==
    /\ callers[c].pc = "idle"
    /\ \E call \in ConcCalls :
         /\ callers' = [callers EXCEPT ![c] = [pc |-> "begun", call |-> call, via |-> client]]
         /\ heap' = [heap EXCEPT ![BuilderOf(c)] = [ClassName |-> ClassName]]
    /\ UNCHANGED <<callVars, db, client>>

\* the call configures its builder from its mapping
Configure(c) ==
    /\ callers[c].pc = "begun"
    /\ callers' = [callers EXCEPT ![c].pc = "built"]
    /\ heap' = [heap EXCEPT ![BuilderOf(c)] = RequestAlone(callers[c].call)]
    /\ UNCHANGED <<callVars, db, client>>

\* Do: the library is given what the builder holds
Submit(c) ==
    /\ callers[c].pc = "built"
    /\ callers' = [callers EXCEPT ![c] = [pc |-> "sent", call |-> callers[c].call,
                                          via |-> callers[c].via,
                                          sent |-> heap[BuilderOf(c)]]]
    /\ UNCHANGED <<callVars, db, heap, client>>

\* the call returns, its builder is dropped
Finish(c) ==
    /\ callers[c].pc = "sent"
    /\ callers' = [callers EXCEPT ![c] = NotCalling]
    /\ heap' = [heap EXCEPT ![BuilderOf(c)] = NoValue]
    /\ UNCHANGED <<callVars, db, client>>

ConcNext == \E c \in Callers : Begin(c) \/ Configure(c) \/ Submit(c) \/ Finish(c)

ConcSpec == ConcInit /\ [][ConcNext]_vars

(***************************************************************************)
(* Properties of newClient.                                                *)
(***************************************************************************)
\* the length of the scheme prefix of a host, in any letter case
SchemePrefixLen(h) ==
    IF HasPrefix(ToLower(h), sHttpPrefix) THEN Len(sHttpPrefix)
    ELSE IF HasPrefix(ToLower(h), sHttpsPrefix) THEN Len(sHttpsPrefix)
    ELSE 0

\* the host without its scheme prefix
HostProper(h) == SubSeq(h, SchemePrefixLen(h) + 1, Len(h))

\* the scheme a lower-case scheme prefix names
PrefixScheme(h) == IF HasPrefix(h, sHttpPrefix) THEN sHttp ELSE sHttps

LowerPrefixed(h) == HasPrefix(h, sHttpPrefix) \/ HasPrefix(h, sHttpsPrefix)

NewClientCalled == op = "newClient"
HostGiven       == NewClientCalled /\ IsString(args.host)
CloudHostGiven  == HostGiven /\ Contains(args.host.v, sCloud)
Resolved        == NewClientCalled /\ Len(sent) = 1
Identity        == sent[1].req

C4_CloudHostGetsSecurePort ==
    (CloudHostGiven /\ ~Contains(HostProper(args.host.v), sColon) /\ Resolved)
    => /\ Identity.Scheme = sHttps
       /\ HasSuffix(Identity.Host, sPort443)
       /\ (IsString(args.grpcHost) /\ Contains(args.grpcHost.v, sColon))
          \/ HasSuffix(Identity.GrpcHost, sPort443)

\* C5 as stated: the scheme of a host prefixed "http://" or "https://" is the
\* scheme of the prefix, cloud hosts included.
C5_SchemeIsPrefixScheme ==
    (HostGiven /\ LowerPrefixed(args.host.v) /\ Resolved)
    => Identity.Scheme = PrefixScheme(args.host.v)

\* C5, amended: the scheme of a host prefixed "http://" or "https://" is the
\* scheme of the prefix whatever the scheme field says, except that a cloud
\* host given without a string grpcHost or without an explicit port resolves
\* to "https".
C5_SchemeIsPrefixSchemeUnlessCloud ==
    (HostGiven /\ LowerPrefixed(args.host.v) /\ Resolved)
    => Identity.Scheme =
         IF /\ Contains(args.host.v, sCloud)
            /\ \/ ~IsString(args.grpcHost)
               \/ ~Contains(HostProper(args.host.v), sColon)
         THEN sHttps
         ELSE PrefixScheme(args.host.v)

C5_Witness ==
    /\ HostGiven
    /\ HasPrefix(args.host.v, sHttpPrefix)
    /\ args.scheme = Str(sHttps)
    /\ Resolved
    /\ Identity.Scheme = sHttp

\* C6: every cloud host resolves to scheme "https", with or without a port
\* and a grpcHost; without a grpcHost the gRPC host is "grpc-" followed by
\* the host without its scheme prefix (and the inferred port).
C6_CloudHostIsHttps ==
    (CloudHostGiven /\ Resolved)
    => /\ Identity.Scheme = sHttps
       /\ ~IsString(args.grpcHost)
          => Identity.GrpcHost \in
               {sGrpcLabel \o HostProper(args.host.v),
                sGrpcLabel \o HostProper(args.host.v) \o sPort443}

\* C7: at most one credential: the bearer token when authToken is a string,
\* else the API key when apiKey is a string, else none.
C7_OneCredential ==
    Resolved =>
       /\ Identity.AuthConfig.kind \in {"none", "BearerToken", "ApiKey"}
       /\ IsString(args.authToken)
          => Identity.AuthConfig =
               [kind |-> "BearerToken", AccessToken |-> args.authToken.v]
       /\ (~IsString(args.authToken) /\ IsString(args.apiKey))
          => Identity.AuthConfig = [kind |-> "ApiKey", Value |-> args.apiKey.v]
       /\ (~IsString(args.authToken) /\ ~IsString(args.apiKey))
          => Identity.AuthConfig = NoAuth

C7_Witness ==
    /\ Resolved
    /\ IsString(args.authToken)
    /\ IsString(args.apiKey)
    /\ Identity.AuthConfig.kind = "BearerToken"

(***************************************************************************)
(* Properties of batchCreate.                                              *)
(***************************************************************************)
BatchCreateCalled == op = "batchCreate"
AllHaveClass      == BatchCreateCalled /\ \A i \in DOMAIN args : IsString(args[i].class)
SomeLacksClass    == BatchCreateCalled /\ \E i \in DOMAIN args : ~IsString(args[i].class)
LibraryAnswered   == Len(sent) = 1 /\ reply.kind = "ok"

\* the library reported an embedded error payload for a result
HasErrorPayload(r) == r.Result.t # "nil" /\ r.Result.Errors.t # "nil"

\* the first position whose object has no string class
FirstWithoutClass(objects) ==
    CHOOSE i \in DOMAIN objects :
        /\ ~IsString(objects[i].class)
        /\ \A j \in 1..(i - 1) : IsString(objects[j].class)

\* C1: N objects with a class and a successful library call: batchCreate
\* returns N entries, entry i describing result i, with status "error"
\* exactly when result i carries an error payload and the lower-cased
\* library status otherwise.
C1_OneEntryPerResult ==
    (AllHaveClass /\ LibraryAnswered)
    => /\ ret.how = "return"
       /\ ret.err = NoErr
       /\ Len(ret.value) = Len(args)
       /\ \A i \in DOMAIN args :
            /\ ret.value[i].class = reply.value[i].Class
            /\ ret.value[i].id = reply.value[i].ID
            /\ (ret.value[i].status = sError) <=> HasErrorPayload(reply.value[i])
            /\ ~HasErrorPayload(reply.value[i])
               => ret.value[i].status = ToLower(reply.value[i].Result.Status.v)

\* C2: a list with an entry without a string class: no results, one error
\* naming the index of the first such entry, nothing submitted.
C2_MissingClassAbortsBatch ==
    SomeLacksClass
    => /\ ret.how = "return"
       /\ ret.value = NoValue
       /\ ret.err.kind = "own"
       /\ ret.err.index = FirstWithoutClass(args) - 1
       /\ sent = <<>>

C2_Witness ==
    /\ BatchCreateCalled
    /\ Len(args) = 2
    /\ IsString(args[1].class)
    /\ ~IsString(args[2].class)
    /\ ret.err.kind = "own"
    /\ ret.err.index = 1
    /\ sent = <<>>

(***************************************************************************)
(* Properties of batchDelete and objectInsert.                             *)
(***************************************************************************)
BatchDeleteCalled  == op = "batchDelete"
ObjectInsertCalled == op = "objectInsert"

\* the consistency level of the call, when it is a string
LevelGiven ==
    IF BatchDeleteCalled THEN args.options.consistencyLevel
    ELSE args.object.consistencyLevel

UnknownLevel == IsString(LevelGiven) /\ LevelGiven.v \notin {"all", "one", "quorum"}
KnownLevel   == IsString(LevelGiven) /\ LevelGiven.v \in {"all", "one", "quorum"}

LevelNames == {<<"all", "ALL">>, <<"one", "ONE">>, <<"quorum", "QUORUM">>}

OwnErrorReturned == ret.how = "return" /\ ret.err.kind = "own"

\* a generic sequence of the where mapping holds an element that is no string
BadWhereSequence ==
    /\ IsGenericMap(args.options.where)
    /\ \/ /\ args.options.where.v.path.t = "[]interface{}"
          /\ \E i \in DOMAIN args.options.where.v.path.v :
                ~IsString(args.options.where.v.path.v[i])
       \/ /\ args.options.where.v.valueText.t = "[]interface{}"
          /\ \E i \in DOMAIN args.options.where.v.valueText.v :
                ~IsString(args.options.where.v.valueText.v[i])

\* batchDelete submits its request unless the conversion of a where sequence
\* fails, which ends the call without an error value
DeleteSubmitted == IF BadWhereSequence THEN ret.how = "panic" /\ sent = <<>>
                   ELSE Len(sent) = 1

\* C8: a consistencyLevel string that is none of "all", "one", "quorum":
\* objectInsert returns an error and inserts nothing, batchDelete raises no
\* error of its own and submits the delete with an empty level; for the
\* three keys both apply the mapped level.
C8_ConsistencyLevelAsymmetry ==
    /\ (ObjectInsertCalled /\ UnknownLevel)
       => /\ OwnErrorReturned
          /\ ret.value = NoValue
          /\ sent = <<>>
    /\ (BatchDeleteCalled /\ UnknownLevel)
       => /\ ~OwnErrorReturned
          /\ DeleteSubmitted
          /\ Len(sent) = 1 => sent[1].req.ConsistencyLevel = ""
    /\ (ObjectInsertCalled /\ KnownLevel)
       => /\ Len(sent) = 1
          /\ <<LevelGiven.v, sent[1].req.ConsistencyLevel>> \in LevelNames
    /\ (BatchDeleteCalled /\ KnownLevel)
       => /\ DeleteSubmitted
          /\ Len(sent) = 1
             => <<LevelGiven.v, sent[1].req.ConsistencyLevel>> \in LevelNames

C8_Witness ==
    /\ BatchDeleteCalled
    /\ args.options.consistencyLevel = Str("invalid")
    /\ Len(sent) = 1
    /\ sent[1].req.ConsistencyLevel = ""
    /\ reply.kind = "ok"
    /\ ret.how = "return"

\* the strings of a path or valueText as the where mapping lists them
ListedStrings(x) ==
    IF x.t = "[]string" THEN x.v
    ELSE IF x.t = "[]interface{}" THEN [i \in DOMAIN x.v |-> x.v[i].v]
    ELSE IF x.t = "string" THEN <<x.v>>
    ELSE NoValue

UnknownOperator ==
    /\ BatchDeleteCalled
    /\ IsGenericMap(args.options.where)
    /\ IsString(args.options.where.v.operator)
    /\ args.options.where.v.operator.v \notin {"Equal", "Like", "ContainsAny", "LessThan"}

\* C9: a where.operator string outside Equal, Like, ContainsAny, LessThan:
\* no error of batchDelete's own, the submitted filter has no operator, and
\* path and value of the mapping are applied all the same.
C9_UnknownOperatorDropped ==
    UnknownOperator
    => /\ ~OwnErrorReturned
       /\ DeleteSubmitted
       /\ Len(sent) = 1
          => /\ sent[1].req.Where.operator = ""
             /\ sent[1].req.Where.path = ListedStrings(args.options.where.v.path)
             /\ sent[1].req.Where.valueText = ListedStrings(args.options.where.v.valueText)
             /\ sent[1].req.Where.valueString =
                  IF IsString(args.options.where.v.valueString)
                  THEN args.options.where.v.valueString.v ELSE NoValue

C9_Witness ==
    /\ UnknownOperator
    /\ args.options.where.v.path = Strings(<<"title">>)
    /\ args.options.where.v.valueText = Str("*")
    /\ Len(sent) = 1
    /\ sent[1].req.Where.operator = ""
    /\ sent[1].req.Where.path = <<"title">>
    /\ sent[1].req.Where.valueText = <<"*">>
    /\ ret.how = "return"
    /\ ret.err = NoErr

(***************************************************************************)
(* Properties of fetchObjects.                                             *)
(***************************************************************************)
FetchObjectsCalled == op = "fetchObjects"

AdditionalGiven ==
    FetchObjectsCalled /\ args.options.additional.t \in {"[]string", "[]interface{}"}

\* the names an additional list holds, in its order
ListedNames(a) ==
    IF a.t = "[]string" THEN a.v
    ELSE LET strs == SelectSeq(a.v, IsString) IN [i \in DOMAIN strs |-> strs[i].v]

IsOtherName(n) == n \notin {"id", "vector"}
IsName(n)      == n # ""

\* C10: for an additional list in either representation, vector retrieval
\* is on exactly when the list holds "vector"; "id" and "vector" are never
\* passed as additional-property names; every other listed name is passed as
\* given; "id" causes no error; each returned object has its one id.
C10_AdditionalHandling ==
    AdditionalGiven
    => LET names == ListedNames(args.options.additional) IN
       /\ Len(sent) = 1
       /\ sent[1].req.WithVector <=> \E i \in DOMAIN names : names[i] = "vector"
       /\ \A i \in DOMAIN sent[1].req.Additional :
            sent[1].req.Additional[i] \notin {"id", "vector"}
       /\ SelectSeq(sent[1].req.Additional, IsName) = SelectSeq(names, IsOtherName)
       /\ ret.how = "return"
       /\ ret.err.kind # "own"
       /\ reply.kind = "ok"
          => /\ ret.err = NoErr
             /\ Len(ret.value.objects) = Len(reply.value)
             /\ \A i \in DOMAIN reply.value :
                  ret.value.objects[i].id = reply.value[i].ID

C10_Witness ==
    /\ FetchObjectsCalled
    /\ args.options.additional = Generics(<<Str("id"), Str("distance")>>)
    /\ sent[1].req.Additional = <<"distance">>
    /\ ~sent[1].req.WithVector
    /\ reply.kind = "ok"
    /\ Len(ret.value.objects) = 2

(***************************************************************************)
(* Round trip and pagination, against the store.                           *)
(***************************************************************************)
\* the 32-bit floats of a sequence of numbers
Narrowed(list) ==
    [i \in DOMAIN list |->
       IF list[i].t = "float64" THEN F32(list[i].num, list[i].den) ELSE F32(list[i].v, 1)]

FetchedById == op = "fetchObjects" /\ IsString(args.options.id) /\ reply.kind = "ok"

\* the vector the object of the query was inserted with
InsertedVector == db[args.options.id.v].inserted.vector.v

\* C11: after an object was inserted with an id and a vector of k numbers, a
\* query by that id asking for "vector" returns exactly one object, with
\* that id and the k numbers of the inserted vector as 32-bit floats, in
\* order.
C11_RoundTrip ==
    (FetchedById /\ FetchWithVector(args.options))
    => /\ ret.how = "return"
       /\ Len(ret.value.objects) = 1
       /\ ret.value.objects[1].id = args.options.id.v
       /\ ret.value.objects[1].vector = Float32s(Narrowed(InsertedVector))

Listed ==
    /\ op = "fetchObjects"
    /\ args.options.id = Absent
    /\ args.options.limit # Absent
    /\ reply.kind = "ok"

GivenOffset == IF args.options.offset = Absent THEN 0 ELSE args.options.offset.v

\* the 0-based position of a stored id among the stored ids
Position(id) == Cardinality({j \in DOMAIN db : IdRank(j) < IdRank(id)})

\* C12: with n objects stored, fetchObjects(offset o, limit l) returns the
\* objects at positions o .. min(o+l, n)-1 of the id order, in that order,
\* the offset being 0 when absent.
C12_Pagination ==
    Listed
    => LET n    == Cardinality(DOMAIN db)
           o    == GivenOffset
           last == Min({o + args.options.limit.v, n})
       IN /\ ret.how = "return"
          /\ Len(ret.value.objects) = IF last > o THEN last - o ELSE 0
          /\ \A i \in DOMAIN ret.value.objects :
               /\ ret.value.objects[i].id \in DOMAIN db
               /\ Position(ret.value.objects[i].id) = o + i - 1

\* five objects stored, offset 4 and limit 2: exactly the last one
C12_Witness ==
    /\ Listed
    /\ Cardinality(DOMAIN db) = 5
    /\ args.options.offset = GoInt64(4)
    /\ args.options.limit = GoInt(2)
    /\ Len(ret.value.objects) = 1
    /\ ret.value.objects[1].id = "id-4"

(***************************************************************************)
(* How operations end.                                                     *)
(***************************************************************************)
Operations ==
    {"newClient", "createCollection", "deleteCollection", "deleteAllCollections",
     "createTenant", "updateTenant", "deleteTenant",
     "batchCreate", "batchDelete", "objectInsert", "fetchObjects"}

\* C13: every public operation, whatever the types of the values of its
\* input, ends by returning a success value or exactly one error value; none
\* ends in a crash.
C13_AlwaysReturns ==
    op \in Operations
    => /\ ret.how = "return"
       /\ ret.err = NoErr \/ ret.value = NoValue

ClientOperations == Operations \ {"newClient"}

LibraryFailed == Len(sent) = 1 /\ reply.kind = "lib"

\* C14: every operation on a client makes at most one library call, and when
\* that call fails the operation returns the library's error itself, neither
\* wrapped nor replaced, and no result.
C14_LibraryErrorUnchanged ==
    op \in ClientOperations
    => /\ Len(sent) <= 1
       /\ LibraryFailed => /\ ret.how = "return"
                           /\ ret.err = reply
                           /\ ret.value = NoValue

C14_Witness ==
    /\ op = "createCollection"
    /\ LibraryFailed
    /\ ret.err = reply
    /\ ret.value = NoValue

ValidationCase ==
    \/ NewClientCalled /\ ~IsString(args.host)
    \/ /\ HostGiven
       /\ ~IsString(args.grpcHost)
       /\ ~Contains(args.host.v, sCloud)
    \/ SomeLacksClass
    \/ ObjectInsertCalled /\ UnknownLevel

\* C16: an operation that returns a configuration or validation error of its
\* own has made no library call; newClient without a string host or without
\* a resolvable gRPC host, batchCreate with an entry lacking a class and
\* objectInsert with an unrecognised consistency level end that way.
C16_OwnErrorBeforeAnyCall ==
    op \in Operations
    => /\ (ret.how = "return" /\ ret.err.kind = "own") => sent = <<>>
       /\ ValidationCase => /\ ret.how = "return"
                            /\ ret.err.kind = "own"
                            /\ ret.value = NoValue
                            /\ sent = <<>>

C16_Witness ==
    /\ ObjectInsertCalled
    /\ UnknownLevel
    /\ ret.how = "return"
    /\ ret.err.kind = "own"
    /\ sent = <<>>

(***************************************************************************)
(* Concurrent callers.                                                     *)
(***************************************************************************)
\* C17: in every interleaving of the calls of several callers of one client,
\* the request a call submits is the request the same call builds when it
\* runs alone, every call works through the identity newClient returned, and
\* that identity is never modified.
C17_CallsDoNotInterfere ==
    /\ client = SharedClient
    /\ \A c \in DOMAIN callers :
         /\ callers[c].pc # "idle" => callers[c].via = SharedClient
         /\ callers[c].pc = "sent" => callers[c].sent = RequestAlone(callers[c].call)

\* two calls with different mappings under way at once, one of them submitted
C17_Witness ==
    \E c, d \in DOMAIN callers :
      /\ callers[c].pc = "sent"
      /\ callers[d].pc = "built"
      /\ callers[c].call # callers[d].call
      /\ callers[c].sent = RequestAlone(callers[c].call)

(***************************************************************************)
(* Scheme prefixes in any letter case.                                     *)
(***************************************************************************)
AnyCasePrefixed == HostGiven /\ SchemePrefixLen(args.host.v) > 0

\* C18: for a host that begins with "http://" or "https://" in any letter
\* case, the resolved host does not start with a scheme prefix, and the
\* scheme is the one of the prefix (cloud hosts, whose scheme is forced to
\* https, aside).
C18_PrefixStrippedAnyCase ==
    (AnyCasePrefixed /\ Resolved)
    => /\ ~LowerPrefixed(ToLower(Identity.Host))
       /\ ~CloudHostGiven => Identity.Scheme = PrefixScheme(ToLower(args.host.v))

(***************************************************************************)
(* The properties of a collection.                                         *)
(***************************************************************************)
CreateCollectionCalled == op = "createCollection"

\* the property mappings given in a generic sequence
GivenProperties ==
    IF args.collectionConfig.properties.t = "[]interface{}"
    THEN SelectSeq(args.collectionConfig.properties.v, IsGenericMap)
    ELSE <<>>

LacksNameOrType(p) == p.v.name = Absent \/ p.v.dataType = Absent

HasDataType(property) ==
    property.DataType.t = "[]string" /\ Len(property.DataType.v) > 0

\* C19: a property mapping lacking name or dataType makes createCollection
\* fail with nothing submitted, and every property of a submitted class has a
\* non-empty data-type list.
C19_PropertiesHaveNameAndType ==
    CreateCollectionCalled
    => /\ (\E i \in DOMAIN GivenProperties : LacksNameOrType(GivenProperties[i]))
          => sent = <<>>
       /\ Len(sent) = 1
          => \A i \in DOMAIN sent[1].req.Properties :
               HasDataType(sent[1].req.Properties[i])

(***************************************************************************)
(* Conversions of generic sequences.                                       *)
(***************************************************************************)
HasOther(val, type) ==
    val.t = "[]interface{}" /\ \E i \in DOMAIN val.v : val.v[i].t # type

\* a dataType, additions or removals list with an element that is no string
BadStringSlice ==
    /\ CreateCollectionCalled
    /\ \/ \E i \in DOMAIN GivenProperties :
            /\ IsString(GivenProperties[i].v.name)
            /\ HasOther(GivenProperties[i].v.dataType, "string")
       \/ /\ IsGenericMap(args.collectionConfig.invertedIndexConfig)
          /\ IsGenericMap(args.collectionConfig.invertedIndexConfig.v.stopwords)
          /\ \/ HasOther(args.collectionConfig.invertedIndexConfig.v.stopwords.v.additions,
                         "string")
             \/ HasOther(args.collectionConfig.invertedIndexConfig.v.stopwords.v.removals,
                         "string")

BadWhereList == BatchDeleteCalled /\ BadWhereSequence

BadAdditional == FetchObjectsCalled /\ HasOther(args.options.additional, "string")

BadVector ==
    /\ ObjectInsertCalled
    /\ ~UnknownLevel
    /\ HasOther(args.object.vector, "float64")

BadNamedVector ==
    /\ ObjectInsertCalled
    /\ ~UnknownLevel
    /\ IsGenericMap(args.object.vectors)
    /\ \E n \in DOMAIN args.object.vectors.v : HasOther(args.object.vectors.v[n], "float64")

Fatal == ret.how = "panic" /\ sent = <<>>

ZeroFilled(list, type, conv(_), zero) ==
    [i \in DOMAIN list |-> IF list[i].t = type THEN conv(list[i]) ELSE zero]

StringOf(x) == x.v
FloatOf(x)  == F32(x.num, x.den)

IsNumber(val) ==
    \/ val.t \in {"int", "int64", "float64"}
    \/ /\ val.t = "string"
       /\ Unsigned(val.v) # <<>>
       /\ \A i \in DOMAIN Unsigned(val.v) : IsDigit(Unsigned(val.v)[i])

\* the whole number nearest to n/d between it and zero
TowardZero(n, d) ==
    LET a == IF n < 0 THEN -n ELSE n
        k == CHOOSE q \in 0..a : q * d <= a /\ a < (q + 1) * d
    IN  IF n < 0 THEN -k ELSE k

\* the integer a number stands for
NumberValue(val) ==
    IF val.t = "float64" THEN TowardZero(val.num, val.den)
    ELSE IF val.t = "string" THEN AtoiVal(val.v)
    ELSE val.v

Carried(val) == IF IsNumber(val) THEN GoInt(NumberValue(val)) ELSE NoValue

\* C21: fetchObjects never fails because of the representation of limit or
\* offset: a native integer, a float or a decimal string is carried as an
\* integer (floats truncated toward zero); for any other value the field is
\* left out and the rest of the query is what it is without the field.
C21_LimitOffsetRepresentations ==
    FetchObjectsCalled
    => /\ Len(sent) = 1
       /\ ret.how = "return"
       /\ ret.err.kind # "own"
       /\ sent[1].req =
            [FetchRequest(ClassName, [args.options EXCEPT !.limit = Absent, !.offset = Absent])
               EXCEPT !.Limit = Carried(args.options.limit),
                      !.Offset = Carried(args.options.offset)]

\* a negative float is truncated toward zero, a sequence is left out
C21_Witness ==
    /\ FetchObjectsCalled
    /\ args.options.limit = F64(-5, 2)
    /\ args.options.offset = Generics(<<GoInt(1)>>)
    /\ sent[1].req.Limit = GoInt(-2)
    /\ sent[1].req.Offset = NoValue
    /\ ret.how = "return"

(***************************************************************************)
(* The value of a where filter.                                            *)
(***************************************************************************)
FilterBuilt == BatchDeleteCalled /\ IsGenericMap(args.options.where) /\ Len(sent) = 1

GivenWhere  == args.options.where.v
BuiltFilter == sent[1].req.Where

\* the filter carries the string value / a text value
CarriesString ==
    IF IsString(GivenWhere.valueString)
    THEN BuiltFilter.valueString = GivenWhere.valueString.v
    ELSE BuiltFilter.valueString # NoValue

CarriesText ==
    IF GivenWhere.valueText.t \in {"[]interface{}", "string"}
    THEN BuiltFilter.valueText = ListedStrings(GivenWhere.valueText)
    ELSE BuiltFilter.valueText # NoValue

\* C22: every filter batchDelete builds from a where mapping carries exactly
\* one value variant: the string value or a text value, never both and never
\* none.
C22_ExactlyOneValue ==
    FilterBuilt => (CarriesString /\ ~CarriesText) \/ (~CarriesString /\ CarriesText)

(***************************************************************************)
(* The per-object status of batchDelete and of batchCreate.                *)
(***************************************************************************)
\* the library answered a delete with per-object results that all have a
\* status
ObjectsDeleted ==
    /\ BatchDeleteCalled
    /\ Len(sent) = 1
    /\ reply.kind = "ok"
    /\ reply.value.Results.t # "nil"
    /\ reply.value.Results.Objects.t # "nil"
    /\ \A i \in DOMAIN reply.value.Results.Objects.v :
         reply.value.Results.Objects.v[i].Status.t # "nil"

DeletedObjects == reply.value.Results.Objects.v

\* what batchCreate makes of the same library status and error payload
AsCreated(obj) ==
    CreateEntry([Class |-> "", ID |-> obj.ID, Result |-> ResultBlock(obj.Status, obj.Errors)])

\* C23 as stated: the status of each per-object entry of batchDelete is the
\* status batchCreate reports for the same library status and payload, and
\* the error text is attached exactly when a payload is present.
C23_DeleteStatusAsCreate ==
    ObjectsDeleted
    => /\ ret.how = "return"
       /\ \A i \in DOMAIN DeletedObjects :
            /\ ret.value.objects[i].status = AsCreated(DeletedObjects[i]).status
            /\ "error" \in DOMAIN ret.value.objects[i]
               <=> DeletedObjects[i].Errors.t # "nil"

\* C23: the status of each per-object entry of batchDelete is the lower-cased
\* library status, also when an error payload is present: it is the status
\* batchCreate reports except that it is not forced to "error"; the error
\* text is attached exactly when a payload is present.
C23_DeleteStatusLowerCased ==
    ObjectsDeleted
    => /\ ret.how = "return"
       /\ Len(ret.value.objects) = Len(DeletedObjects)
       /\ \A i \in DOMAIN DeletedObjects :
            /\ ret.value.objects[i].status = ToLower(DeletedObjects[i].Status.v)
            /\ DeletedObjects[i].Errors.t = "nil"
               => /\ ret.value.objects[i].status = AsCreated(DeletedObjects[i]).status
                  /\ "error" \notin DOMAIN ret.value.objects[i]
            /\ DeletedObjects[i].Errors.t # "nil"
               => /\ AsCreated(DeletedObjects[i]).status = sError
                  /\ "error" \in DOMAIN ret.value.objects[i]
                  /\ ret.value.objects[i].error = DeletedObjects[i].Errors.Error

\* a failed object with an error payload is reported as "failed"
C23_Witness ==
    /\ ObjectsDeleted
    /\ Len(DeletedObjects) = 2
    /\ DeletedObjects[2].Errors = ErrorPayload
    /\ ret.value.objects[2].status = <<"f","a","i","l","e","d">>
    /\ ret.value.objects[2].error = "conflict"
    /\ ret.value.objects[1].status = <<"s","u","c","c","e","s","s">>

(***************************************************************************)
(* Vectors in batchCreate.                                                 *)
(***************************************************************************)
BatchSubmitted == BatchCreateCalled /\ Len(sent) = 1

\* C24: in batchCreate the request of an object that supplies a vectors
\* mapping never carries the single vector, whatever vector holds and also
\* when no entry of vectors is usable; the single vector is carried only when
\* vectors is no mapping.
C24_NamedVectorsFirst ==
    BatchSubmitted
    => \A i \in DOMAIN args :
         /\ IsGenericMap(args[i].vectors)
            => /\ sent[1].req[i].Vector = NoValue
               /\ sent[1].req[i].Vectors.t = "Vectors"
         /\ ~IsGenericMap(args[i].vectors)
            => /\ sent[1].req[i].Vectors = NoValue
               /\ args[i].vector.t = "[]float32" => sent[1].req[i].Vector = args[i].vector

\* vectors without a usable entry, and a usable vector: neither is carried
C24_Witness ==
    /\ BatchSubmitted
    /\ Len(args) = 1
    /\ args[1] = ObjUnusable
    /\ sent[1].req[1].Vector = NoValue
    /\ DOMAIN sent[1].req[1].Vectors.v = {}

(***************************************************************************)
(* Optional fields of a collection.                                        *)
(***************************************************************************)
GivenInverted == args.collectionConfig.invertedIndexConfig

\* the fields the claim takes for required are there, and no sequence holds
\* an element of the wrong type
RequiredFieldsGiven ==
    /\ CreateCollectionCalled
    /\ \A i \in DOMAIN GivenProperties :
         /\ IsString(GivenProperties[i].v.name)
         /\ ~HasOther(GivenProperties[i].v.dataType, "string")
    /\ IsGenericMap(GivenInverted)
       => /\ IsGenericMap(GivenInverted.v.bm25)
             => /\ GivenInverted.v.bm25.v.k1.t = "float32"
                /\ GivenInverted.v.bm25.v.b.t = "float32"
          /\ IsGenericMap(GivenInverted.v.stopwords)
             => /\ ~HasOther(GivenInverted.v.stopwords.v.additions, "string")
                /\ ~HasOther(GivenInverted.v.stopwords.v.removals, "string")
                /\ GivenInverted.v.stopwords.v.preset.t \in {"absent", "string"}

\* C25: in createCollection every field other than a property's name and
\* dataType and bm25's k1 and b is optional at every level: leaving it out,
\* the preset of a stopwords mapping included, never makes the operation
\* fail before the class is submitted.
C25_OtherFieldsOptional ==
    RequiredFieldsGiven
    => /\ ret.how = "return"
       /\ Len(sent) = 1

(***************************************************************************)
(* Headers and startup timeout.                                            *)
(***************************************************************************)
HeadersGiven ==
    Resolved /\ args.headers.t \in {"map[string]string", "map[string]interface{}"}

TimeoutGiven == Resolved /\ args.timeout.t \in {"int", "int64", "float64"}

\* C26: headers given as a mapping of names to strings and a timeout given
\* as a number of seconds reach the resolved identity, in whichever
\* representation the caller's runtime delivers them (a fractional number of
\* seconds counted in whole seconds).
C26_HeadersAndTimeoutCarried ==
    /\ HeadersGiven
       => /\ Identity.Headers.t # "nil"
          /\ Identity.Headers.v = args.headers.v
    /\ TimeoutGiven
       => /\ Identity.StartupTimeout % Second = 0
          /\ Identity.StartupTimeout \div Second = NumberValue(args.timeout)

(***************************************************************************)
(* Tenants.                                                                *)
(***************************************************************************)
TenantOperations == {"createTenant", "updateTenant", "deleteTenant"}

StringOrEmpty(val) == IF val.t = "string" THEN val.v ELSE ""

\* C27: createTenant and updateTenant submit one tenant record per mapping,
\* in order, and never fail before submission; a record's name is the
\* mapping's name when it is a string and "" otherwise; records of
\* createTenant carry no activity status, those of updateTenant the
\* mapping's activityStatus string or ""; deleteTenant submits the given
\* names unchanged.
C27_TenantRecords ==
    op \in TenantOperations
    => /\ Len(sent) = 1
       /\ ret.how = "return"
       /\ ret.err.kind # "own"
       /\ sent[1].req.ClassName = args.collectionName
       /\ op = "deleteTenant" => sent[1].req.Tenants = args.tenantNames
       /\ op # "deleteTenant"
          => /\ Len(sent[1].req.Tenants) = Len(args.tenants)
             /\ \A i \in DOMAIN args.tenants :
                  /\ sent[1].req.Tenants[i].Name = StringOrEmpty(args.tenants[i].name)
                  /\ sent[1].req.Tenants[i].ActivityStatus =
                       IF op = "updateTenant"
                       THEN StringOrEmpty(args.tenants[i].activityStatus)
                       ELSE ""

\* createTenant with a status and a name that is no string
C27_Witness ==
    /\ op = "createTenant"
    /\ Len(args.tenants) = 2
    /\ args.tenants[1] = [name |-> Str("tenant-1"), activityStatus |-> Str("COLD")]
    /\ args.tenants[2].name = GoInt(1)
    /\ sent[1].req.Tenants[1] = [Name |-> "tenant-1", ActivityStatus |-> ""]
    /\ sent[1].req.Tenants[2].Name = ""

(***************************************************************************)
(* Results without a result block.                                         *)
(***************************************************************************)
\* C28: the flattening of batchCreate makes one entry for every result the
\* library returns and does not crash, also for a result without a result
\* block or without a status.
C28_FlatteningNeverCrashes ==
    (AllHaveClass /\ LibraryAnswered)
    => /\ ret.how = "return"
       /\ Len(ret.value) = Len(reply.value)

(***************************************************************************)
(* Vector representations in batchCreate.                                  *)
(***************************************************************************)
IsNumbers(val) == val.t = "[]interface{}" /\ ~HasOther(val, "float64")

\* C29: a vector given to batchCreate as a generic sequence of numbers, and
\* each named vector given that way, reaches the submitted batch object with
\* the same length and values, as it does in objectInsert.
C29_GenericVectorsCarried ==
    BatchSubmitted
    => \A i \in DOMAIN args :
         /\ (~IsGenericMap(args[i].vectors) /\ IsNumbers(args[i].vector))
            => /\ sent[1].req[i].Vector # NoValue
               /\ sent[1].req[i].Vector = Float32s(Narrowed(args[i].vector.v))
         /\ IsGenericMap(args[i].vectors)
            => \A n \in DOMAIN args[i].vectors.v :
                 IsNumbers(args[i].vectors.v[n])
                 => /\ n \in DOMAIN sent[1].req[i].Vectors.v
                    /\ sent[1].req[i].Vectors.v[n] =
                         Float32s(Narrowed(args[i].vectors.v[n].v))

(***************************************************************************)
(* Representations of the properties list.                                 *)
(***************************************************************************)
\* the mappings of a properties list, in either representation
ListedProperties ==
    IF args.collectionConfig.properties.t = "[]map[string]interface{}"
    THEN args.collectionConfig.properties.v
    ELSE [i \in DOMAIN args.collectionConfig.properties.v |->
            args.collectionConfig.properties.v[i].v]

IsTypeList(val) ==
    \/ val.t = "[]string"
    \/ val.t = "[]interface{}" /\ ~HasOther(val, "string")

\* a properties list whose entries are mappings with a string name and a
\* data-type list
WellFormedProperties ==
    /\ CreateCollectionCalled
    /\ args.collectionConfig.properties.t \in {"[]map[string]interface{}", "[]interface{}"}
    /\ args.collectionConfig.properties.t = "[]interface{}"
       => \A i \in DOMAIN args.collectionConfig.properties.v :
            IsGenericMap(args.collectionConfig.properties.v[i])
    /\ \A i \in DOMAIN ListedProperties :
         /\ IsString(ListedProperties[i].name)
         /\ IsTypeList(ListedProperties[i].dataType)

\* C30: for a properties list in either representation whose entries have a
\* string name and a data-type list, the submitted class has one property per
\* entry, in order, with the entry's name and data types.
C30_PropertiesInEveryRepresentation ==
    (WellFormedProperties /\ Len(sent) = 1)
    => /\ Len(sent[1].req.Properties) = Len(ListedProperties)
       /\ \A i \in DOMAIN ListedProperties :
            /\ sent[1].req.Properties[i].Name = ListedProperties[i].name.v
            /\ sent[1].req.Properties[i].DataType.t = "[]string"
            /\ sent[1].req.Properties[i].DataType.v =
                 ListedStrings(ListedProperties[i].dataType)

====
